---- MODULE Spec2Model ----
(***************************************************************************)
(* Model of the bootcamp_data batch ETL pipeline: the safe left join       *)
(* (joins.py) and the extract -> transform -> load orchestration (etl.py). *)
(*                                                                         *)
(* A table (pandas DataFrame) is a record [cols, rows]: cols is the        *)
(* sequence of column names, rows the sequence of rows, each row a         *)
(* function from the column names to cell values.  Cell values are         *)
(* strings; NA is the missing value.                                       *)
(***************************************************************************)
EXTENDS Naturals, Sequences, FiniteSets, TLC

VARIABLES
    jargs,        \* arguments of the safe_left_join call under test
    jout,         \* its outcome: [err, cols, rows]
    fs_orders,    \* content of the raw orders file (cfg.raw_orders)
    fs_users,     \* content of the raw users file (cfg.raw_users)
    disk,         \* the four output paths: path -> file content
    run,          \* "first" or "second" invocation of run_etl
    pc,           \* position of the running invocation in Program
    status,       \* "running", "done" or "failed"
    error,        \* the exception that ended the invocation, or "none"
    wrote,        \* output paths written by the running invocation, in order
    orders_raw,   \* locals of run_etl / transform
    users_raw,
    users,
    orders,
    analytics,
    orders_clean,
    stats,
    disk_at_start \* the output paths as the running invocation found them

jvars == <<jargs, jout>>
evars == <<fs_orders, fs_users, disk, run, pc, status, error, wrote,
           orders_raw, users_raw, users, orders, analytics, orders_clean,
           stats, disk_at_start>>
vars == <<jargs, jout, fs_orders, fs_users, disk, run, pc, status, error,
          wrote, orders_raw, users_raw, users, orders, analytics,
          orders_clean, stats, disk_at_start>>

(***************************************************************************)
(* Bounds of the explored inputs.                                          *)
(***************************************************************************)
MaxLeft == 2      \* rows of the left table of a join call
MaxRight == 2     \* rows of the right table of a join call
MaxOrders == 2    \* rows of the raw orders file
MaxUsers == 2     \* rows of the raw users file

NA == "<NA>"

Range(s) == {s[i] : i \in 1..Len(s)}

SeqsUpTo(S, n) == UNION {[1..k -> S] : k \in 0..n}

Table(cols, rows) == [cols |-> cols, rows |-> rows]

NoTable == Table(<<>>, <<>>)

\* len(df)
len(t) == Len(t.rows)

(***************************************************************************)
(* pandas.DataFrame.merge(how="left", on, validate, suffixes), as called   *)
(* by safe_left_join.  Key uniqueness and key matching both treat two      *)
(* missing keys as equal, as pandas does.                                  *)
(***************************************************************************)
is_unique(t, on) ==
    \A i, j \in 1..len(t) : t.rows[i][on] = t.rows[j][on] => i = j

\* The uniqueness requirement put on the wrong side.
validate_ok_swapped(left, right, on, validate) ==
    CASE validate = "one_to_one" -> is_unique(left, on) /\ is_unique(right, on)
      [] validate = "one_to_many" -> is_unique(right, on)
      [] validate = "many_to_one" -> is_unique(left, on)
      [] validate = "many_to_many" -> TRUE

\* MergeError raised by the validate argument, checked on the inputs before
\* the join is computed.
validate_ok(left, right, on, validate) ==
    CASE validate = "one_to_one" -> is_unique(left, on) /\ is_unique(right, on)
      [] validate = "one_to_many" -> is_unique(left, on)
      [] validate = "many_to_one" -> is_unique(right, on)
      [] validate = "many_to_many" -> TRUE

overlap(left, right, on) == (Range(left.cols) \cap Range(right.cols)) \ {on}

lname(left, right, on, suffixes, c) ==
    IF c \in overlap(left, right, on) THEN c \o suffixes[1] ELSE c

rname(left, right, on, suffixes, c) ==
    IF c \in overlap(left, right, on) THEN c \o suffixes[2] ELSE c

right_cols(right, on) ==
    LET NotKey(c) == c # on IN SelectSeq(right.cols, NotKey)

merge_cols(left, right, on, suffixes) ==
    [i \in 1..Len(left.cols) |-> lname(left, right, on, suffixes, left.cols[i])]
    \o [i \in 1..Len(right_cols(right, on)) |->
           rname(left, right, on, suffixes, right_cols(right, on)[i])]

null_row(right) == [c \in Range(right.cols) |-> NA]

\* One output row: the left row's cells, then the right row's non-key cells.
join_row(left, right, on, suffixes, l, r) ==
    LET lc == Range(left.cols)
        rc == Range(right_cols(right, on))
        LSrc(c) == CHOOSE x \in lc : lname(left, right, on, suffixes, x) = c
        RSrc(c) == CHOOSE x \in rc : rname(left, right, on, suffixes, x) = c
    IN  [c \in Range(merge_cols(left, right, on, suffixes)) |->
            IF \E x \in lc : lname(left, right, on, suffixes, x) = c
            THEN l[LSrc(c)]
            ELSE r[RSrc(c)]]

matches(right, on, l) ==
    LET Same(r) == r[on] = l[on] IN SelectSeq(right.rows, Same)

\* An inner join: a left row without a match yields no row.
rows_for_inner(left, right, on, suffixes, l) ==
    LET m == matches(right, on, l)
    IN  [j \in 1..Len(m) |-> join_row(left, right, on, suffixes, l, m[j])]

rows_for(left, right, on, suffixes, l) ==
    LET m == matches(right, on, l)
    IN  IF m = <<>>
        THEN <<join_row(left, right, on, suffixes, l, null_row(right))>>
        ELSE [j \in 1..Len(m) |-> join_row(left, right, on, suffixes, l, m[j])]

RECURSIVE merge_rows(_, _, _, _, _)
merge_rows(left, right, on, suffixes, i) ==
    IF i > len(left)
    THEN <<>>
    ELSE rows_for(left, right, on, suffixes, left.rows[i])
         \o merge_rows(left, right, on, suffixes, i + 1)

Raise(e) == [err |-> e, cols |-> <<>>, rows |-> <<>>]

Return(t) == [err |-> "none", cols |-> t.cols, rows |-> t.rows]

merge(left, right, on, validate, suffixes) ==
    IF ~validate_ok(left, right, on, validate)
    THEN Raise("MergeError")
    ELSE Return(Table(merge_cols(left, right, on, suffixes),
                      merge_rows(left, right, on, suffixes, 1)))

(***************************************************************************)
(* joins.safe_left_join                                                    *)
(***************************************************************************)
DEFAULT_SUFFIXES == <<"", "_r">>

safe_left_join(left, right, on, validate, suffixes, check_row_count) ==
    LET before == len(left)
        out == merge(left, right, on, validate, suffixes)
    IN  IF out.err # "none"
        THEN out
        ELSE IF check_row_count /\ before # len(out)
             THEN Raise("AssertionError")
             ELSE out

(***************************************************************************)
(* bootcamp_data.quality: the fail-fast checks.  Each is the condition     *)
(* under which the check passes.                                           *)
(***************************************************************************)
require_columns(t, cols) == Range(cols) \subseteq Range(t.cols)

assert_non_empty(t) == len(t) > 0

\* A repeated missing key counts as a duplicate.
assert_unique_key(t, key) ==
    ~\E i, j \in 1..len(t) : i # j /\ t.rows[i][key] = t.rows[j][key]

(***************************************************************************)
(* bootcamp_data.transforms.  Cells are transformed by value; the values   *)
(* a step derives from a cell are written as terms over that cell.         *)
(***************************************************************************)
\* df.assign(name = G(row)): replaces the column when it exists.
assign(t, name, G(_)) ==
    Table(IF name \in Range(t.cols) THEN t.cols ELSE Append(t.cols, name),
          [i \in 1..len(t) |->
              [c \in Range(t.cols) \cup {name} |->
                  IF c = name THEN G(t.rows[i]) ELSE t.rows[i][c]]])

\* df[cols]
select(t, cols) ==
    Table(cols, [i \in 1..len(t) |-> [c \in Range(cols) |-> t.rows[i][c]]])

\* lower-case and strip; nulls pass through.
normalize_text(v) ==
    CASE v = NA -> NA
      [] v = "US" -> "us"
      [] v = " PAID " -> "paid"
      [] v = "Refunded" -> "refunded"
      [] OTHER -> v

\* values without an entry pass through unchanged.
apply_mapping(v, mapping) == IF v \in DOMAIN mapping THEN mapping[v] ELSE v

to_numeric(v) == IF v \in {"1", "2", "10", "12"} THEN v ELSE NA

SCHEMA_COLS == <<"order_id", "user_id", "amount", "quantity", "created_at", "status">>

enforce_schema(t) ==
    LET Amount(r) == to_numeric(r.amount)
        Quantity(r) == to_numeric(r.quantity)
    IN  assign(assign(select(t, SCHEMA_COLS), "amount", Amount), "quantity", Quantity)

Flag(b) == IF b THEN "True" ELSE "False"

RECURSIVE add_missing_flags(_, _)
add_missing_flags(t, cols) ==
    IF cols = <<>>
    THEN t
    ELSE LET Missing(r) == Flag(r[Head(cols)] = NA)
         IN  add_missing_flags(assign(t, Head(cols) \o "_missing", Missing), Tail(cols))

to_datetime(v) ==
    IF v \in {"2024-01-01", "2024-01-03"} THEN v \o " 00:00:00+00:00" ELSE NA

parse_datetime(t, col) ==
    LET Parsed(r) == to_datetime(r[col]) IN assign(t, col, Parsed)

TIME_PARTS == <<"year", "month", "day", "hour", "dow">>

Term(f, v) == IF v = NA THEN NA ELSE f \o "(" \o v \o ")"

RECURSIVE add_parts(_, _, _)
add_parts(t, ts_col, parts) ==
    IF parts = <<>>
    THEN t
    ELSE LET Part(r) == Term(Head(parts), r[ts_col])
         IN  add_parts(assign(t, Head(parts), Part), ts_col, Tail(parts))

add_time_parts(t, ts_col) == add_parts(t, ts_col, TIME_PARTS)

winsorize(v) == Term("clip", v)

add_outlier_flag(t, col) ==
    LET Outlier(r) == Term("outside_bounds", r[col])
    IN  assign(t, col \o "_outlier", Outlier)

(***************************************************************************)
(* bootcamp_data.io.write_parquet: the file at the path is replaced.       *)
(***************************************************************************)
Parquet(df) == [kind |-> "parquet", cols |-> df.cols, rows |-> df.rows]

write_parquet(d, df, path) == [d EXCEPT ![path] = Parquet(df)]

\* Path.write_text: the file at the path is replaced.
write_text(d, doc, path) == [d EXCEPT ![path] = doc]

(***************************************************************************)
(* etl.py                                                                  *)
(***************************************************************************)
cfg ==
    [root |-> ".",
     raw_orders |-> "data/raw/orders.csv",
     raw_users |-> "data/raw/users.csv",
     out_orders_clean |-> "data/processed/orders_clean.parquet",
     out_users |-> "data/processed/users.parquet",
     out_analytics |-> "data/processed/analytics_table.parquet",
     run_meta |-> "data/processed/_run_meta.json"]

ORDERS_REQUIRED == <<"order_id", "user_id", "amount", "quantity", "created_at", "status">>

USERS_REQUIRED == <<"user_id", "country", "signup_date">>

status_map ==
    [paid |-> "paid", refund |-> "refund", refunded |-> "refund", returned |-> "refund"]

MISSING_FLAG_COLS == <<"amount", "quantity", "created_at", "status">>

\* users_raw.copy() with country normalized.
clean_users(u) ==
    LET Country(r) == normalize_text(r.country)
    IN  IF "country" \in Range(u.cols) THEN assign(u, "country", Country) ELSE u

\* The pipe chain on orders_raw.copy().
clean_orders(o) ==
    LET StatusClean(r) == apply_mapping(normalize_text(r.status), status_map)
    IN  add_time_parts(
            parse_datetime(
                add_missing_flags(
                    assign(enforce_schema(o), "status_clean", StatusClean),
                    MISSING_FLAG_COLS),
                "created_at"),
            "created_at")

add_winsor(o) ==
    LET Winsor(r) == winsorize(r.amount)
    IN  IF "amount" \in Range(o.cols)
        THEN add_outlier_flag(assign(o, "amount_winsor", Winsor), "amount")
        ELSE o

join_users(o, u) ==
    safe_left_join(o, u, "user_id", "many_to_one", DEFAULT_SUFFIXES, TRUE)

\* analytics.drop(columns=[...], errors="ignore")
drop(t, cols) ==
    LET Kept(c) == c \notin cols IN select(t, SelectSeq(t.cols, Kept))

user_side_cols(u) == Range(u.cols) \ {"user_id"}

drop_user_cols(a, u) == drop(a, user_side_cols(u) \cap Range(a.cols))

None == "None"

isna_count(t, col) == Cardinality({i \in 1..len(t) : t.rows[i][col] = NA})

\* Series.isna().mean(), as the fraction num/den.
isna_mean(t, col) == [num |-> isna_count(t, col), den |-> len(t)]

\* The null rate reported as the match rate.
one_minus_forgotten(f) == f

\* 1.0 - f
one_minus(f) == [num |-> f.den - f.num, den |-> f.den]

compute_stats(oraw, uraw, a) ==
    [rows_in_orders_raw |-> len(oraw),
     rows_in_users_raw |-> len(uraw),
     rows_out_analytics |-> len(a),
     missing_created_at_after_parse |->
         IF "created_at" \in Range(a.cols) THEN isna_count(a, "created_at") ELSE None,
     country_match_rate |->
         IF "country" \in Range(a.cols) THEN one_minus(isna_mean(a, "country")) ELSE None]

\* A document that also records which invocation wrote it.
meta_per_run(c, st) ==
    [kind |-> "json",
     stats |-> st,
     invocation |-> run,
     inputs |-> [orders_raw |-> c.raw_orders, users_raw |-> c.raw_users],
     outputs |-> [orders_clean |-> c.out_orders_clean, users |-> c.out_users,
                  analytics_table |-> c.out_analytics, run_meta |-> c.run_meta],
     config |-> [root |-> c.root]]

\* The document write_run_meta serialises.
meta(c, st) ==
    [kind |-> "json",
     stats |-> st,
     inputs |-> [orders_raw |-> c.raw_orders, users_raw |-> c.raw_users],
     outputs |-> [orders_clean |-> c.out_orders_clean, users |-> c.out_users,
                  analytics_table |-> c.out_analytics, run_meta |-> c.run_meta],
     config |-> [root |-> c.root]]

\* The artifacts written before the inputs are transformed.
run_etl_steps_load_first ==
    <<"load_inputs", "load_outputs", "transform", "write_run_meta">>

\* The metadata document written before the artifacts.
run_etl_steps_meta_first ==
    <<"load_inputs", "transform", "write_run_meta", "load_outputs">>

\* The emptiness check of orders moved before the column check of users.
transform_steps_swapped ==
    <<"require_columns_orders", "assert_non_empty_orders",
      "require_columns_users", "assert_non_empty_users",
      "assert_unique_key_users",
      "clean_users", "clean_orders", "add_winsor",
      "safe_left_join", "drop_user_cols", "compute_stats">>

\* The calls of run_etl, of transform and of load_outputs, in program order.
run_etl_steps == <<"load_inputs", "transform", "load_outputs", "write_run_meta">>

transform_steps ==
    <<"require_columns_orders", "require_columns_users",
      "assert_non_empty_orders", "assert_non_empty_users",
      "assert_unique_key_users",
      "clean_users", "clean_orders", "add_winsor",
      "safe_left_join", "drop_user_cols", "compute_stats">>

load_outputs_steps == <<"write_orders_clean", "write_users", "write_analytics">>

Expand(s) ==
    CASE s = "transform" -> transform_steps
      [] s = "load_outputs" -> load_outputs_steps
      [] OTHER -> <<s>>

RECURSIVE Flatten(_)
Flatten(ss) == IF ss = <<>> THEN <<>> ELSE Expand(Head(ss)) \o Flatten(Tail(ss))

Program == Flatten(run_etl_steps)

(***************************************************************************)
(* One invocation of run_etl, step by step.  The raw readers and the       *)
(* writers are file I/O and may fail; a write is atomic per artifact.      *)
(* Creating the output directory is not modelled: it writes no output.     *)
(***************************************************************************)
locals == <<orders_raw, users_raw, users, orders, analytics, orders_clean, stats>>

NoStats == [rows_out_analytics |-> None]

At(step) == status = "running" /\ Program[pc] = step

Advance ==
    /\ pc' = pc + 1
    /\ status' = IF pc = Len(Program) THEN "done" ELSE "running"
    /\ error' = error

Fail(e) ==
    /\ pc' = pc
    /\ status' = "failed"
    /\ error' = e

Quiet == UNCHANGED <<jvars, fs_orders, fs_users, run, disk_at_start>>

Check(step, ok, e) ==
    /\ At(step)
    /\ IF ok THEN Advance ELSE Fail(e)
    /\ UNCHANGED <<disk, wrote, locals>>
    /\ Quiet

Write(step, written, path) ==
    /\ At(step)
    /\ \E ok \in BOOLEAN :
          IF ok
          THEN /\ disk' = written
               /\ wrote' = Append(wrote, path)
               /\ Advance
          ELSE /\ Fail("OSError")
               /\ UNCHANGED <<disk, wrote>>
    /\ UNCHANGED locals
    /\ Quiet

LoadInputs ==
    /\ At("load_inputs")
    /\ \E ok \in BOOLEAN :
          IF ok
          THEN /\ orders_raw' = fs_orders
               /\ users_raw' = fs_users
               /\ Advance
          ELSE /\ Fail("OSError")
               /\ UNCHANGED <<orders_raw, users_raw>>
    /\ UNCHANGED <<disk, wrote, users, orders, analytics, orders_clean, stats>>
    /\ Quiet

RequireColumnsOrders ==
    Check("require_columns_orders", require_columns(orders_raw, ORDERS_REQUIRED),
          "SchemaError: orders_raw")

RequireColumnsUsers ==
    Check("require_columns_users", require_columns(users_raw, USERS_REQUIRED),
          "SchemaError: users_raw")

AssertNonEmptyOrders ==
    Check("assert_non_empty_orders", assert_non_empty(orders_raw),
          "EmptyInputError: orders_raw")

AssertNonEmptyUsers ==
    Check("assert_non_empty_users", assert_non_empty(users_raw),
          "EmptyInputError: users_raw")

AssertUniqueKeyUsers ==
    Check("assert_unique_key_users", assert_unique_key(users_raw, "user_id"),
          "KeyViolationError: user_id")

CleanUsers ==
    /\ At("clean_users")
    /\ users' = clean_users(users_raw)
    /\ Advance
    /\ UNCHANGED <<disk, wrote, orders_raw, users_raw, orders, analytics,
                   orders_clean, stats>>
    /\ Quiet

CleanOrders ==
    /\ At("clean_orders")
    /\ orders' = clean_orders(orders_raw)
    /\ Advance
    /\ UNCHANGED <<disk, wrote, orders_raw, users_raw, users, analytics,
                   orders_clean, stats>>
    /\ Quiet

AddWinsor ==
    /\ At("add_winsor")
    /\ orders' = add_winsor(orders)
    /\ Advance
    /\ UNCHANGED <<disk, wrote, orders_raw, users_raw, users, analytics,
                   orders_clean, stats>>
    /\ Quiet

SafeLeftJoin ==
    /\ At("safe_left_join")
    /\ LET out == join_users(orders, users)
       IN  IF out.err = "none"
           THEN /\ analytics' = Table(out.cols, out.rows)
                /\ Advance
           ELSE /\ Fail(out.err)
                /\ UNCHANGED analytics
    /\ UNCHANGED <<disk, wrote, orders_raw, users_raw, users, orders,
                   orders_clean, stats>>
    /\ Quiet

DropUserCols ==
    /\ At("drop_user_cols")
    /\ orders_clean' = drop_user_cols(analytics, users)
    /\ Advance
    /\ UNCHANGED <<disk, wrote, orders_raw, users_raw, users, orders,
                   analytics, stats>>
    /\ Quiet

ComputeStats ==
    /\ At("compute_stats")
    /\ stats' = compute_stats(orders_raw, users_raw, analytics)
    /\ Advance
    /\ UNCHANGED <<disk, wrote, orders_raw, users_raw, users, orders,
                   analytics, orders_clean>>
    /\ Quiet

WriteOrdersClean ==
    Write("write_orders_clean",
          write_parquet(disk, orders_clean, cfg.out_orders_clean),
          cfg.out_orders_clean)

WriteUsers ==
    Write("write_users", write_parquet(disk, users, cfg.out_users), cfg.out_users)

WriteAnalytics ==
    Write("write_analytics", write_parquet(disk, analytics, cfg.out_analytics),
          cfg.out_analytics)

WriteRunMeta ==
    Write("write_run_meta", write_text(disk, meta(cfg, stats), cfg.run_meta),
          cfg.run_meta)

\* run_etl is invoked again with the same configuration and raw files.
Rerun ==
    /\ status = "done"
    /\ run = "first"
    /\ run' = "second"
    /\ disk_at_start' = disk
    /\ pc' = 1
    /\ status' = "running"
    /\ error' = "none"
    /\ wrote' = <<>>
    /\ orders_raw' = NoTable
    /\ users_raw' = NoTable
    /\ users' = NoTable
    /\ orders' = NoTable
    /\ analytics' = NoTable
    /\ orders_clean' = NoTable
    /\ stats' = NoStats
    /\ UNCHANGED <<jvars, fs_orders, fs_users, disk>>

(***************************************************************************)
(* The raw files and the output directory an invocation may find.          *)
(***************************************************************************)
OrderKeys == {"a", "b", NA}

UserKeys == {"a", NA}

OrdersCols == {ORDERS_REQUIRED,
               <<"order_id", "user_id", "amount", "quantity", "created_at">>}

UsersCols == {USERS_REQUIRED,
              <<"user_id", "signup_date">>,
              <<"user_id", "country", "signup_date", "status">>,
              <<"user_id", "country", "signup_date", "tier">>}

Pick(vals, i) == vals[((i - 1) % Len(vals)) + 1]

OrderRow(i, k) ==
    [order_id |-> ToString(i),
     user_id |-> k,
     amount |-> Pick(<<"10", "abc", "12">>, i),
     quantity |-> Pick(<<"1", "2", NA>>, i),
     created_at |-> Pick(<<"2024-01-01", "not a date", "2024-01-03">>, i),
     status |-> Pick(<<" PAID ", "Refunded", "pending">>, i)]

UserRow(k, c) ==
    [user_id |-> k, country |-> c, signup_date |-> "2023-01-01",
     status |-> "vip", tier |-> "gold"]

Restrict(r, cols) == [c \in Range(cols) |-> r[c]]

OrdersFiles ==
    {Table(cols, [i \in 1..Len(ks) |-> Restrict(OrderRow(i, ks[i]), cols)])
       : cols \in OrdersCols, ks \in SeqsUpTo(OrderKeys, MaxOrders)}

UsersFiles ==
    {Table(cols, [i \in 1..Len(us) |-> Restrict(UserRow(us[i][1], us[i][2]), cols)])
       : cols \in UsersCols, us \in SeqsUpTo(UserKeys \X {"US", NA}, MaxUsers)}

OutPaths == {cfg.out_orders_clean, cfg.out_users, cfg.out_analytics, cfg.run_meta}

\* No file, or a file left by an earlier execution on other inputs.
InitialDisks == {[p \in OutPaths |-> [kind |-> k]] : k \in {"absent", "stale"}}

JoinIdle ==
    /\ jargs = [left |-> NoTable, right |-> NoTable,
                validate |-> "many_to_one", check_row_count |-> TRUE]
    /\ jout = Raise("pending")

Init ==
    /\ JoinIdle
    /\ fs_orders \in OrdersFiles
    /\ fs_users \in UsersFiles
    /\ disk \in InitialDisks
    /\ disk_at_start = disk
    /\ run = "first"
    /\ pc = 1
    /\ status = "running"
    /\ error = "none"
    /\ wrote = <<>>
    /\ orders_raw = NoTable
    /\ users_raw = NoTable
    /\ users = NoTable
    /\ orders = NoTable
    /\ analytics = NoTable
    /\ orders_clean = NoTable
    /\ stats = NoStats

Next ==
    \/ LoadInputs
    \/ RequireColumnsOrders
    \/ RequireColumnsUsers
    \/ AssertNonEmptyOrders
    \/ AssertNonEmptyUsers
    \/ AssertUniqueKeyUsers
    \/ CleanUsers
    \/ CleanOrders
    \/ AddWinsor
    \/ SafeLeftJoin
    \/ DropUserCols
    \/ ComputeStats
    \/ WriteOrdersClean
    \/ WriteUsers
    \/ WriteAnalytics
    \/ WriteRunMeta
    \/ Rerun

Spec == Init /\ [][Next]_vars

(***************************************************************************)
(* Properties of run_etl and transform                                     *)
(***************************************************************************)
ArtifactPaths == {cfg.out_orders_clean, cfg.out_users, cfg.out_analytics}

Wrote == Range(wrote)

Terminated == status \in {"done", "failed"}

\* The invocation failed inside transform.
FailedInTransform == status = "failed" /\ Program[pc] \in Range(transform_steps)

\* C1: when transform fails, the invocation has executed no write step: none
\* of the four output paths was written and the output paths are as the
\* invocation found them.
C1_TransformFailureWritesNothing ==
    FailedInTransform => (wrote = <<>> /\ disk = disk_at_start)

\* transform failed on a duplicate users.user_id.
C1_Witness ==
    /\ FailedInTransform
    /\ error = "KeyViolationError: user_id"
    /\ wrote = <<>>

\* C2: once the invocation has written the metadata document, it has written
\* all three artifacts before it, and each artifact path holds the table this
\* invocation produced.
C2_MetaOnlyAfterArtifacts ==
    cfg.run_meta \in Wrote =>
        /\ wrote = <<cfg.out_orders_clean, cfg.out_users, cfg.out_analytics,
                     cfg.run_meta>>
        /\ disk[cfg.out_orders_clean] = Parquet(orders_clean)
        /\ disk[cfg.out_users] = Parquet(users)
        /\ disk[cfg.out_analytics] = Parquet(analytics)

C2_Witness ==
    /\ status = "done"
    /\ cfg.run_meta \in Wrote
    /\ disk[cfg.run_meta].kind = "json"

\* C3: at termination the invocation either completed and wrote all four
\* outputs, or failed and wrote none of them.
C3_AllOrNothing ==
    Terminated =>
        \/ status = "done" /\ Wrote = OutPaths
        \/ status = "failed" /\ wrote = <<>> /\ disk = disk_at_start

NonNullCountry == {i \in 1..len(analytics) : analytics.rows[i].country # NA}

\* Raw order i has a users row with the same user_id.
HasUser(i) ==
    \E j \in 1..len(fs_users) : fs_users.rows[j].user_id = fs_orders.rows[i].user_id

\* Raw order i has a users row with the same user_id and a country.
HasUserWithCountry(i) ==
    \E j \in 1..len(fs_users) :
        /\ fs_users.rows[j].user_id = fs_orders.rows[i].user_id
        /\ fs_users.rows[j].country # NA

AnalyticsRowsOf(i) ==
    {o \in 1..len(analytics) : analytics.rows[o].order_id = fs_orders.rows[i].order_id}

\* C7: once transform has computed stats, rows_out_analytics is the number of
\* orders rows and country_match_rate is (analytics rows with a country) /
\* (analytics rows); an order without a users row has exactly one analytics
\* row, with country null, and makes the rate less than 1; the rate is 1 when
\* every order has a users row with a country.
C7_StatsMatchAnalytics ==
    stats # NoStats =>
        /\ stats.rows_out_analytics = len(fs_orders)
        /\ stats.rows_out_analytics = len(analytics)
        /\ stats.country_match_rate.num = Cardinality(NonNullCountry)
        /\ stats.country_match_rate.den = len(analytics)
        /\ \A i \in 1..len(fs_orders) :
              ~HasUser(i) =>
                  /\ Cardinality(AnalyticsRowsOf(i)) = 1
                  /\ \A o \in AnalyticsRowsOf(i) : analytics.rows[o].country = NA
                  /\ stats.country_match_rate.num < stats.country_match_rate.den
        /\ (\A i \in 1..len(fs_orders) : HasUserWithCountry(i)) =>
              stats.country_match_rate.num = stats.country_match_rate.den

\* Two orders, one with a users row that has a country and one without a
\* users row: the rate is 1/2.
C7_Witness ==
    /\ status = "done"
    /\ len(fs_orders) = 2
    /\ HasUserWithCountry(1)
    /\ ~HasUser(2)
    /\ stats.country_match_rate = [num |-> 1, den |-> 2]

\* C8: a completed invocation leaves at each output path exactly what it
\* produced, whatever the path held before; and an invocation that follows a
\* completed one on the same raw files never changes what the paths hold.
C8_RerunLeavesSameOutputs ==
    /\ status = "done" =>
          disk = [p \in OutPaths |->
                     CASE p = cfg.out_orders_clean -> Parquet(orders_clean)
                       [] p = cfg.out_users -> Parquet(users)
                       [] p = cfg.out_analytics -> Parquet(analytics)
                       [] p = cfg.run_meta -> meta(cfg, stats)]
    /\ run = "second" => disk = disk_at_start

C8_Witness ==
    /\ run = "second"
    /\ status = "done"
    /\ Wrote = OutPaths
    /\ disk = disk_at_start

\* The error of the first violated quality check, in the order
\* require_columns(orders), require_columns(users), assert_non_empty(orders),
\* assert_non_empty(users), assert_unique_key(users, user_id).
FirstViolation ==
    IF ~(Range(ORDERS_REQUIRED) \subseteq Range(fs_orders.cols))
    THEN "SchemaError: orders_raw"
    ELSE IF ~(Range(USERS_REQUIRED) \subseteq Range(fs_users.cols))
    THEN "SchemaError: users_raw"
    ELSE IF fs_orders.rows = <<>>
    THEN "EmptyInputError: orders_raw"
    ELSE IF fs_users.rows = <<>>
    THEN "EmptyInputError: users_raw"
    ELSE IF \E i, j \in 1..len(fs_users) :
               i # j /\ fs_users.rows[i].user_id = fs_users.rows[j].user_id
    THEN "KeyViolationError: user_id"
    ELSE "none"

\* A cleaning, enrichment, join or statistics step has executed.
Transformed ==
    \/ users # NoTable
    \/ orders # NoTable
    \/ analytics # NoTable
    \/ orders_clean # NoTable
    \/ stats # NoStats

\* C9: a transformation step executes only when all five quality checks
\* pass; when the inputs violate some check, transform fails with the error
\* of the first violated check in the fixed order, no transformation step
\* having executed.
C9_ChecksFirstInFixedOrder ==
    /\ Transformed => FirstViolation = "none"
    /\ (FailedInTransform /\ FirstViolation # "none") =>
          (error = FirstViolation /\ ~Transformed)

\* Empty orders, users without country and with a repeated user_id: the
\* error is that of the users column check.
C9_Witness ==
    /\ FailedInTransform
    /\ error = "SchemaError: users_raw"
    /\ fs_orders.rows = <<>>
    /\ len(fs_users) = 2
    /\ fs_users.rows[1].user_id = fs_users.rows[2].user_id

\* C10: the orders_clean table transform derives has the rows of analytics
\* and exactly the columns of the enriched orders table: every one of them
\* and none contributed by users.
C10_OrdersCleanIsOrdersOnlyView ==
    orders_clean # NoTable =>
        /\ len(orders_clean) = len(analytics)
        /\ Range(orders.cols) \subseteq Range(orders_clean.cols)
        /\ Range(orders_clean.cols) \subseteq Range(orders.cols)

(***************************************************************************)
(* Calls of safe_left_join on bounded tables.  The left table has the      *)
(* columns order_id, user_id; the right table has user_id and one more     *)
(* column, whose name may collide with a left column.                      *)
(***************************************************************************)
JoinKeys == {"a", "b", NA}

Validates == {"one_to_one", "one_to_many", "many_to_one", "many_to_many"}

LeftTables ==
    {Table(<<"order_id", "user_id">>,
           [i \in 1..Len(ks) |-> [order_id |-> ToString(i), user_id |-> ks[i]]])
       : ks \in SeqsUpTo(JoinKeys, MaxLeft)}

RightRows(col) ==
    {[c \in {"user_id", col} |-> IF c = "user_id" THEN k ELSE v]
       : k \in JoinKeys, v \in {"us", NA}}

RightTables ==
    UNION {{Table(<<"user_id", col>>, rs) : rs \in SeqsUpTo(RightRows(col), MaxRight)}
             : col \in {"country", "order_id"}}

Pending == Raise("pending")

JoinCall ==
    /\ jout = Pending
    /\ jout' = safe_left_join(jargs.left, jargs.right, "user_id", jargs.validate,
                              DEFAULT_SUFFIXES, jargs.check_row_count)
    /\ UNCHANGED <<jargs, evars>>

EtlIdle ==
    /\ fs_orders = NoTable
    /\ fs_users = NoTable
    /\ disk = [p \in OutPaths |-> [kind |-> "absent"]]
    /\ run = "first"
    /\ pc = 0
    /\ status = "idle"
    /\ error = "none"
    /\ wrote = <<>>
    /\ orders_raw = NoTable
    /\ users_raw = NoTable
    /\ users = NoTable
    /\ orders = NoTable
    /\ analytics = NoTable
    /\ orders_clean = NoTable
    /\ stats = NoStats
    /\ disk_at_start = disk

InitJoin ==
    /\ jargs \in [left : LeftTables, right : RightTables,
                  validate : Validates, check_row_count : BOOLEAN]
    /\ jout = Pending
    /\ EtlIdle

NextJoin == JoinCall

SpecJoin == InitJoin /\ [][NextJoin]_vars

(***************************************************************************)
(* Properties of safe_left_join                                            *)
(***************************************************************************)
JoinReturned == jout.err = "none"

JoinCalled == jout # Pending

\* Number of right rows whose key equals the key of left row i.
NMatches(i) ==
    Cardinality({j \in 1..len(jargs.right) :
                   jargs.right.rows[j].user_id = jargs.left.rows[i].user_id})

RightKeyUnique ==
    \A i, j \in 1..len(jargs.right) :
        jargs.right.rows[i].user_id = jargs.right.rows[j].user_id => i = j

LeftKeyUnique ==
    \A i, j \in 1..len(jargs.left) :
        jargs.left.rows[i].user_id = jargs.left.rows[j].user_id => i = j

\* Name of the right table's non-key column, and the name it has in the output.
RightCol == jargs.right.cols[2]

RightColOut == IF RightCol = "order_id" THEN "order_id_r" ELSE RightCol

\* Output row o is left row i joined with right row j (j = 0: no right row).
IsJoinOf(o, i, j) ==
    /\ jout.rows[o].order_id = jargs.left.rows[i].order_id
    /\ jout.rows[o].user_id = jargs.left.rows[i].user_id
    /\ jout.rows[o][RightColOut] =
          IF j = 0 THEN NA ELSE jargs.right.rows[j][RightCol]

\* C4: under many_to_one with the row-count check on and a right table whose
\* key is unique, the call succeeds, the output has as many rows as the left
\* table, and output row i is left row i carrying the columns of its one
\* matching right row, or nulls when no right row matches.
C4_ManyToOneKeepsLeftRows ==
    (/\ JoinCalled
     /\ jargs.validate = "many_to_one"
     /\ jargs.check_row_count
     /\ RightKeyUnique)
    => /\ JoinReturned
       /\ len(jout) = len(jargs.left)
       /\ jout.cols = <<"order_id", "user_id", RightColOut>>
       /\ \A i \in 1..len(jargs.left) :
             IF NMatches(i) = 0
             THEN IsJoinOf(i, i, 0)
             ELSE \E j \in 1..len(jargs.right) :
                     /\ jargs.right.rows[j].user_id = jargs.left.rows[i].user_id
                     /\ IsJoinOf(i, i, j)

\* A many_to_one call returned two rows, one matched and one unmatched.
C4_Witness ==
    /\ JoinReturned
    /\ jargs.validate = "many_to_one"
    /\ jargs.check_row_count
    /\ RightKeyUnique
    /\ len(jargs.left) = 2
    /\ len(jargs.right) = 2
    /\ NMatches(1) = 1
    /\ NMatches(2) = 0
    /\ jout.rows[1][RightColOut] = "us"

\* C5: under many_to_one or one_to_one, a right table in which a key value
\* occurs more than once makes the call fail with the cardinality error
\* (MergeError) and never with the row-count assertion; nothing is returned.
C5_DuplicateRightKeyIsMergeError ==
    (/\ JoinCalled
     /\ jargs.validate \in {"many_to_one", "one_to_one"}
     /\ ~RightKeyUnique)
    => /\ jout.err = "MergeError"
       /\ jout.rows = <<>>

\* The duplicated right key does not occur in left, and the check is on.
C5_Witness ==
    /\ jout.err = "MergeError"
    /\ jargs.validate = "many_to_one"
    /\ jargs.check_row_count
    /\ ~RightKeyUnique
    /\ len(jargs.left) = 2
    /\ \A i \in 1..len(jargs.left) : NMatches(i) = 0

\* The declared cardinality holds of the inputs.
CardinalityHolds ==
    CASE jargs.validate = "one_to_one" -> LeftKeyUnique /\ RightKeyUnique
      [] jargs.validate = "one_to_many" -> LeftKeyUnique
      [] jargs.validate = "many_to_one" -> RightKeyUnique
      [] jargs.validate = "many_to_many" -> TRUE

\* Number of output rows that carry left row i (order_id identifies it).
Copies(i) ==
    Cardinality({o \in 1..len(jout) :
                   jout.rows[o].order_id = jargs.left.rows[i].order_id})

\* C6: with check_row_count on and validate one_to_many or many_to_many, a
\* call whose inputs satisfy the declared cardinality returns, and each left
\* row appears once per matching right row (once when it has none).
C6_LeftOuterJoinUnderEveryCardinality ==
    (/\ JoinCalled
     /\ jargs.check_row_count
     /\ jargs.validate \in {"one_to_many", "many_to_many"}
     /\ CardinalityHolds)
    => /\ JoinReturned
       /\ \A i \in 1..len(jargs.left) :
             Copies(i) = IF NMatches(i) = 0 THEN 1 ELSE NMatches(i)

====
